---- MODULE Spec2Model ----
(***************************************************************************)
(* Model of the moonpalace "export" command (export.go): the cobra command *)
(* exportCommand with its Run closure, the filename synthesizer            *)
(* genFilename and the curl renderer writeCurlCommand.                     *)
(*                                                                         *)
(* Go strings are TLA+ strings; the library functions the code calls       *)
(* (strings.HasPrefix, strings.ReplaceAll, textproto.ReadMIMEHeader, ...)  *)
(* are operators that compute what the library computes.                   *)
(***************************************************************************)
EXTENDS Integers, Sequences, FiniteSets, TLC

VARIABLES
    pc,         \* position of the invocation
    flags,      \* the command's flag variables as cobra left them
    store,      \* what persistence holds for the selector
    request,    \* the *Request loaded by Run, NilRequest before
    out,        \* the writes made to the output stream, in order
    err,        \* the error of the last call that can fail
    openFiles,  \* created files whose handle has not been closed
    deferred,   \* the deferred calls of Run, innermost last
    created,    \* names of the files created by os.Create
    getCalls,   \* number of calls of persistence.GetRequest
    outputStream, \* the io.Writer Run encodes to, Null before it is chosen
    filename    \* results of the calls of genFilename, in order

vars == <<pc, flags, store, request, out, err, openFiles, deferred, created,
          getCalls, outputStream, filename>>

Null == "<nil>"

(***************************************************************************)
(* Bounds of the model.                                                    *)
(***************************************************************************)
MaxTags == 1
MaxHeaderLines == 2
MaxCalls == 2
MaxFault == 2

(***************************************************************************)
(* package strings                                                         *)
(***************************************************************************)
At(s, i) == SubSeq(s, i, i)

HasPrefix(s, p) == Len(s) >= Len(p) /\ SubSeq(s, 1, Len(p)) = p

HasSuffix(s, p) == Len(s) >= Len(p) /\ SubSeq(s, Len(s) - Len(p) + 1, Len(s)) = p

TrimPrefix(s, p) == IF HasPrefix(s, p) THEN SubSeq(s, Len(p) + 1, Len(s)) ELSE s

RECURSIVE ReplaceAll(_, _, _)
\* strings.ReplaceAll for a one-byte old string
ReplaceAll(s, old, new) ==
    IF s = "" THEN ""
    ELSE (IF At(s, 1) = old THEN new ELSE At(s, 1))
         \o ReplaceAll(SubSeq(s, 2, Len(s)), old, new)

LowerAlpha == "abcdefghijklmnopqrstuvwxyz"
UpperAlpha == "ABCDEFGHIJKLMNOPQRSTUVWXYZ"

IsUpper(c) == \E i \in 1..26 : At(UpperAlpha, i) = c
IsLower(c) == \E i \in 1..26 : At(LowerAlpha, i) = c

ToLowerByte(c) ==
    IF IsUpper(c)
    THEN At(LowerAlpha, CHOOSE i \in 1..26 : At(UpperAlpha, i) = c)
    ELSE c

ToUpperByte(c) ==
    IF IsLower(c)
    THEN At(UpperAlpha, CHOOSE i \in 1..26 : At(LowerAlpha, i) = c)
    ELSE c

RECURSIVE ToLower(_)
ToLower(s) ==
    IF s = "" THEN "" ELSE ToLowerByte(At(s, 1)) \o ToLower(SubSeq(s, 2, Len(s)))

\* index of the first occurrence of the byte c in s, 0 when there is none
IndexByte(s, c) ==
    IF \E i \in 1..Len(s) : At(s, i) = c
    THEN CHOOSE i \in 1..Len(s) :
            At(s, i) = c /\ \A j \in 1..(i - 1) : At(s, j) # c
    ELSE 0

(***************************************************************************)
(* The Request record.  Nullable columns are sql.NullString wrappers.      *)
(***************************************************************************)
NullString(valid, str) == [Valid |-> valid, String |-> str]

Absent == NullString(FALSE, "")
Present(str) == NullString(TRUE, str)

Time(Y, M, D, h, m, s) ==
    [year |-> Y, month |-> M, day |-> D, hour |-> h, minute |-> m, second |-> s]

Digits == "0123456789"

RECURSIVE Itoa(_)
\* strconv.Itoa for n >= 0
Itoa(n) ==
    IF n < 10 THEN At(Digits, n + 1)
    ELSE Itoa(n \div 10) \o At(Digits, (n % 10) + 1)

RECURSIVE Pad(_, _)
\* the decimal digits of n, zero-padded on the left to the given width
Pad(n, width) ==
    IF width <= 1 THEN Itoa(n)
    ELSE IF Len(Itoa(n)) >= width THEN Itoa(n)
    ELSE "0" \o Pad(n, width - 1)

\* time.Time.Format with the layout "20060102150405"
Format(t) ==
    Pad(t.year, 4) \o Pad(t.month, 2) \o Pad(t.day, 2)
    \o Pad(t.hour, 2) \o Pad(t.minute, 2) \o Pad(t.second, 2)

\* Request.Ident: the record's primary identifier, completion id first,
\* then the external request id, then the row id
Ident(r) ==
    IF r.ChatcmplID.Valid THEN "chatcmpl=" \o r.ChatcmplID.String
    ELSE IF r.ExternalRequestID.Valid
         THEN "requestid=" \o r.ExternalRequestID.String
    ELSE "id=" \o Itoa(r.ID)

\* Request.Url: the full URL of the recorded call
Url(r) == r.Endpoint \o r.RequestPath

\* Request.IsChat
IsChat(r) == r.Chat

(***************************************************************************)
(* genFilename                                                             *)
(***************************************************************************)
\* genFilename with the "requestid-" prefix of the second branch forgotten
genFilename_NoRequestidPrefix(r) ==
    LET ident == Ident(r) IN
    IF HasPrefix(ident, "chatcmpl=")
    THEN TrimPrefix(ident, "chatcmpl=") \o ".json"
    ELSE IF HasPrefix(ident, "requestid=")
    THEN TrimPrefix(ident, "requestid=") \o ".json"
    ELSE ToLower(r.RequestMethod) \o "-"
         \o ReplaceAll(TrimPrefix(r.RequestPath, "/v1/"), "/", "-")
         \o (IF r.MoonshotUID.Valid THEN "-" \o r.MoonshotUID.String ELSE "")
         \o "-" \o Format(r.CreatedAt)
         \o ".json"

\* genFilename writing the UID without looking at MoonshotUID.Valid
genFilename_UIDAlways(r) ==
    LET ident == Ident(r) IN
    IF HasPrefix(ident, "chatcmpl=")
    THEN TrimPrefix(ident, "chatcmpl=") \o ".json"
    ELSE IF HasPrefix(ident, "requestid=")
    THEN "requestid-" \o TrimPrefix(ident, "requestid=") \o ".json"
    ELSE ToLower(r.RequestMethod) \o "-"
         \o ReplaceAll(TrimPrefix(r.RequestPath, "/v1/"), "/", "-")
         \o "-" \o r.MoonshotUID.String
         \o "-" \o Format(r.CreatedAt)
         \o ".json"

genFilename(r) ==
    LET ident == Ident(r) IN
    IF HasPrefix(ident, "chatcmpl=")
    THEN TrimPrefix(ident, "chatcmpl=") \o ".json"
    ELSE IF HasPrefix(ident, "requestid=")
    THEN "requestid-" \o TrimPrefix(ident, "requestid=") \o ".json"
    ELSE ToLower(r.RequestMethod) \o "-"
         \o ReplaceAll(TrimPrefix(r.RequestPath, "/v1/"), "/", "-")
         \o (IF r.MoonshotUID.Valid THEN "-" \o r.MoonshotUID.String ELSE "")
         \o "-" \o Format(r.CreatedAt)
         \o ".json"

(***************************************************************************)
(* net/textproto: Reader.ReadMIMEHeader and MIMEHeader.Del                 *)
(***************************************************************************)
IsSpace(c) == c = " " \/ c = "\t"

RECURSIVE TrimLeft(_)
TrimLeft(s) ==
    IF s # "" /\ IsSpace(At(s, 1)) THEN TrimLeft(SubSeq(s, 2, Len(s))) ELSE s

RECURSIVE TrimRight(_)
TrimRight(s) ==
    IF s # "" /\ IsSpace(At(s, Len(s)))
    THEN TrimRight(SubSeq(s, 1, Len(s) - 1)) ELSE s

\* textproto's trim: leading and trailing spaces and tabs removed
Trim(s) == TrimRight(TrimLeft(s))

RECURSIVE SplitLines(_)
\* the lines Reader.readLineSlice returns one after the other: each up to
\* the next "\n", with the "\n" and a "\r" before it dropped
SplitLines(s) ==
    LET i == IndexByte(s, "\n") IN
    IF i = 0 THEN (IF s = "" THEN <<>> ELSE <<s>>)
    ELSE LET line == SubSeq(s, 1, i - 1) IN
         <<IF HasSuffix(line, "\r") THEN SubSeq(line, 1, Len(line) - 1) ELSE line>>
         \o SplitLines(SubSeq(s, i + 1, Len(s)))

\* the punctuation of an RFC 7230 token, but for the backquote, which no
\* header of the model holds
TokenPunct == "!#$%&'*+-.^_|~"

\* validHeaderFieldByte: the bytes of an RFC 7230 token
IsTokenByte(c) ==
    \/ IsUpper(c) \/ IsLower(c)
    \/ \E i \in 1..Len(Digits) : At(Digits, i) = c
    \/ \E i \in 1..Len(TokenPunct) : At(TokenPunct, i) = c

ValidKey(k) == \A i \in 1..Len(k) : IsTokenByte(At(k, i))

RECURSIVE Canonical(_, _)
\* the loop of canonicalMIMEHeaderKey: a letter is upper-cased at the start
\* and after a hyphen, lower-cased anywhere else
Canonical(k, upper) ==
    IF k = "" THEN ""
    ELSE LET c == At(k, 1) IN
         (IF upper THEN ToUpperByte(c) ELSE ToLowerByte(c))
         \o Canonical(SubSeq(k, 2, Len(k)), c = "-")

\* textproto.CanonicalMIMEHeaderKey: a key with a byte that is no token byte
\* is returned as it is
CanonicalMIMEHeaderKey(k) == IF ValidKey(k) THEN Canonical(k, TRUE) ELSE k

EmptyHeader == [k \in {} |-> <<>>]

\* m[key] = append(m[key], value)
AddValue(m, key, value) ==
    [k \in DOMAIN m \cup {key} |->
        IF k = key
        THEN (IF key \in DOMAIN m THEN Append(m[key], value) ELSE <<value>>)
        ELSE m[k]]

\* MIMEHeader.Del
Del(m, key) ==
    [k \in DOMAIN m \ {CanonicalMIMEHeaderKey(key)} |-> m[k]]

RECURSIVE Continued(_, _)
\* readContinuedLineSlice after its first line: the lines starting with a
\* space or a tab that follow lines[i], each joined with one space.
\* Result: <<text to append, index of the next unread line>>
Continued(lines, i) ==
    IF i <= Len(lines) /\ lines[i] # "" /\ IsSpace(At(lines[i], 1))
    THEN LET rest == Continued(lines, i + 1) IN
         <<" " \o Trim(lines[i]) \o rest[1], rest[2]>>
    ELSE <<"", i>>

RECURSIVE ReadHeaderLines(_, _, _)
\* the loop of readMIMEHeader from line i on, with m read so far.  The
\* header read so far is returned together with the error.
ReadHeaderLines(lines, i, m) ==
    IF i > Len(lines) THEN [header |-> m, err |-> "EOF"]
    ELSE IF lines[i] = "" THEN [header |-> m, err |-> Null]
    ELSE IF IndexByte(lines[i], ":") = 0
    THEN [header |-> m, err |-> "malformed MIME header: missing colon"]
    ELSE LET cont == Continued(lines, i + 1)
             kv   == Trim(lines[i]) \o cont[1]
             c    == IndexByte(kv, ":")
             k    == SubSeq(kv, 1, c - 1)
             v    == SubSeq(kv, c + 1, Len(kv))
         IN  IF ~ValidKey(k)
             THEN [header |-> m, err |-> "malformed MIME header line"]
             ELSE IF k = "" THEN ReadHeaderLines(lines, cont[2], m)
             ELSE ReadHeaderLines(lines, cont[2],
                      AddValue(m, Canonical(k, TRUE), TrimLeft(v)))

\* ReadMIMEHeader returning no header at all when it returns an error
ReadMIMEHeader_NilOnError(s) ==
    LET res == IF s # "" /\ IsSpace(At(s, 1))
               THEN [header |-> EmptyHeader, err |-> "malformed MIME header initial line"]
               ELSE ReadHeaderLines(SplitLines(s), 1, EmptyHeader)
    IN  IF res.err # Null THEN [header |-> EmptyHeader, err |-> res.err] ELSE res

\* Reader.ReadMIMEHeader on the text s
ReadMIMEHeader(s) ==
    IF s # "" /\ IsSpace(At(s, 1))
    THEN [header |-> EmptyHeader, err |-> "malformed MIME header initial line"]
    ELSE ReadHeaderLines(SplitLines(s), 1, EmptyHeader)

(***************************************************************************)
(* writeCurlCommand                                                        *)
(***************************************************************************)
Continuation == "\\\n\t"

AuthorizationLine == "-H \"Authorization: Bearer $MOONSHOT_API_KEY\"" \o Continuation

\* the closure escape of writeCurlCommand
escape(s) == ReplaceAll(s, "'", "'\"'\"'")

\* the header with the second Del forgotten
mimeHeaderOf_KeepMicro(r) ==
    Del(ReadMIMEHeader(r.RequestHeader.String \o "\r\n\r\n").header,
        "Content-Length")

\* the header the loop of writeCurlCommand ranges over
mimeHeaderOf(r) ==
    Del(Del(ReadMIMEHeader(r.RequestHeader.String \o "\r\n\r\n").header,
            "Content-Length"),
        "X-Unix-Micro")

RECURSIVE HeaderWrites(_, _)
\* the writes of the loop "for k, vv := range mimeHeader", the keys taken in
\* the given order
HeaderWrites(m, order) ==
    IF order = <<>> THEN <<>>
    ELSE LET k == Head(order) IN
         [i \in 1..Len(m[k]) |->
            "-H '" \o escape(k) \o ": " \o escape(m[k][i]) \o "' " \o Continuation]
         \o HeaderWrites(m, Tail(order))

\* the writes with the -d line continued like the lines before it
curlWrites_BodyContinued(r, order) ==
    <<"curl -X '" \o escape(r.RequestMethod) \o "' '" \o escape(Url(r)) \o "' "
        \o Continuation>>
    \o <<AuthorizationLine>>
    \o (IF r.RequestHeader.Valid THEN HeaderWrites(mimeHeaderOf(r), order) ELSE <<>>)
    \o (IF r.RequestBody.Valid
        THEN <<"-d '" \o escape(r.RequestBody.String) \o "' " \o Continuation>>
        ELSE <<>>)
    \o <<"\n">>

\* every write writeCurlCommand attempts, in order
curlWrites(r, order) ==
    <<"curl -X '" \o escape(r.RequestMethod) \o "' '" \o escape(Url(r)) \o "' "
        \o Continuation>>
    \o <<AuthorizationLine>>
    \o (IF r.RequestHeader.Valid THEN HeaderWrites(mimeHeaderOf(r), order) ELSE <<>>)
    \o (IF r.RequestBody.Valid
        THEN <<"-d '" \o escape(r.RequestBody.String) \o "'">> ELSE <<>>)
    \o <<"\n">>

\* writeCurlCommand(w, request) where the range loop takes the keys in the
\* given order and the fault-th write to w fails (0: no write fails).
\* Result: what reached w and the error returned.
writeCurlCommand(r, order, fault) ==
    LET ws == curlWrites(r, order) IN
    IF fault \in 1..Len(ws)
    THEN [writes |-> SubSeq(ws, 1, fault - 1), err |-> "write error"]
    ELSE [writes |-> ws, err |-> Null]

\* the orders in which a range loop can take the keys of m
KeyOrders(m) ==
    {o \in [1..Cardinality(DOMAIN m) -> DOMAIN m] :
        \A i, j \in DOMAIN o : i # j => o[i] # o[j]}

(***************************************************************************)
(* encoding/json: the string encoding of Encoder.Encode                    *)
(***************************************************************************)
\* one byte of a JSON string literal
jsonByte(c, escapeHTML) ==
    IF c = "\"" THEN "\\\""
    ELSE IF c = "\\" THEN "\\\\"
    ELSE IF c = "\n" THEN "\\n"
    ELSE IF c = "\r" THEN "\\r"
    ELSE IF c = "\t" THEN "\\t"
    ELSE IF escapeHTML /\ c = "<" THEN "\\u003c"
    ELSE IF escapeHTML /\ c = ">" THEN "\\u003e"
    ELSE IF escapeHTML /\ c = "&" THEN "\\u0026"
    ELSE c

RECURSIVE jsonBytes(_, _)
jsonBytes(s, escapeHTML) ==
    IF s = "" THEN ""
    ELSE jsonByte(At(s, 1), escapeHTML) \o jsonBytes(SubSeq(s, 2, Len(s)), escapeHTML)

jsonString(s, escapeHTML) == "\"" \o jsonBytes(s, escapeHTML) \o "\""

\* encoder.Encode(request): the encoded string values of the document, by
\* the field they come from (names and layout of the document are left out)
Encode(r, escapeHTML) ==
    [Category      |-> jsonString(r.Category, escapeHTML),
     Tags          |-> [i \in 1..Len(r.Tags) |-> jsonString(r.Tags[i], escapeHTML)],
     RequestMethod |-> jsonString(r.RequestMethod, escapeHTML),
     RequestPath   |-> jsonString(r.RequestPath, escapeHTML),
     RequestBody   |-> IF r.RequestBody.Valid
                       THEN jsonString(r.RequestBody.String, escapeHTML)
                       ELSE "null"]

(***************************************************************************)
(* exportCommand: the flags and the flag groups                            *)
(***************************************************************************)
\* escape-html registered with the default true
DefaultEscapeHTML_On == TRUE

\* the default of the flag escape-html
DefaultEscapeHTML == FALSE

\* the variable escapeHTML after flag parsing
escapeHTMLOf(f) ==
    IF f.escapeHTML = "unset" THEN DefaultEscapeHTML ELSE f.escapeHTML = "true"

\* cmd.MarkFlagsOneRequired("id", "chatcmpl", "requestid")
OneRequired(f) == f.id \/ f.chatcmpl \/ f.requestid

\* cmd.MarkFlagsMutuallyExclusive("good", "bad")
MutuallyExclusive(f) == ~(f.good /\ f.bad)

\* the flag groups with MarkFlagsOneRequired left out
ValidateFlagGroups_ExclusiveOnly(f) == MutuallyExclusive(f)

\* cobra's ValidateFlagGroups over the groups the command marks
ValidateFlagGroups(f) == OneRequired(f) /\ MutuallyExclusive(f)

\* the annotation step without the test of IsChat
annotate_AnyRecord(r, f) ==
    [r EXCEPT
        !.Category = IF f.good THEN "goodcase"
                     ELSE IF f.bad THEN "badcase" ELSE @,
        !.Tags = IF Len(f.tags) > 0 THEN f.tags ELSE @]

\* the annotation step of Run
annotate(r, f) ==
    IF IsChat(r)
    THEN [r EXCEPT
            !.Category = IF f.good THEN "goodcase"
                         ELSE IF f.bad THEN "badcase" ELSE @,
            !.Tags = IF Len(f.tags) > 0 THEN f.tags ELSE @]
    ELSE r

\* logFatal(err): reports the error and ends the process at once; the calls
\* Run has deferred are not run
logFatal(e) ==
    /\ pc' = "exited"
    /\ err' = e
    /\ UNCHANGED <<openFiles, deferred>>

\* the deferred calls of Run, each a file.Close(), run when Run returns
RunDeferred ==
    /\ openFiles' = openFiles \ {deferred[i] : i \in DOMAIN deferred}
    /\ deferred' = <<>>

(***************************************************************************)
(* Inputs                                                                  *)
(***************************************************************************)
BaseRequest ==
    [ID |-> 7, ChatcmplID |-> Absent, ExternalRequestID |-> Absent,
     RequestMethod |-> "POST", RequestPath |-> "/v1/chat/completions",
     Endpoint |-> "https://api.moonshot.cn", MoonshotUID |-> Absent,
     CreatedAt |-> Time(2024, 1, 2, 3, 4, 5),
     RequestHeader |-> Absent, RequestBody |-> Present("{\"a\":1}"),
     Category |-> "", Tags |-> <<>>, Chat |-> TRUE]

SeqsUpTo(S, n) == UNION {[1..k -> S] : k \in 0..n}

TagLists == SeqsUpTo({"t1", "t2"}, MaxTags)

FlagSets ==
    [id : BOOLEAN, chatcmpl : BOOLEAN, requestid : BOOLEAN,
     good : BOOLEAN, bad : BOOLEAN, tags : TagLists, curl : BOOLEAN,
     directory : {"", "exports"}, output : {"stdout", "stderr", "a.json"},
     escapeHTML : {"unset", "true", "false"}]

HTMLBody == "<b>Tom & 'Jerry'</b>"

MainRecords ==
    {[BaseRequest EXCEPT !.Chat = c, !.Category = a[1], !.Tags = a[2],
                         !.RequestBody = Present(HTMLBody)] :
        c \in BOOLEAN, a \in {<<"", <<>> >>, <<"badcase", <<"old">> >>}}

ErrNoRows == "sql: no rows in result set"
StorageError == "database is locked"

\* a nil *Request
NilRequest == [nil |-> TRUE]

\* what persistence.GetRequest returns for the selector: (request, err)
Stores ==
    {[request |-> r, err |-> Null] : r \in MainRecords}
    \cup {[request |-> NilRequest, err |-> e] : e \in {ErrNoRows, StorageError}}

(***************************************************************************)
(* One invocation of the export command                                    *)
(***************************************************************************)
Init ==
    /\ pc = "parse"
    /\ flags \in FlagSets
    /\ store \in Stores
    /\ request = NilRequest
    /\ out = <<>> /\ err = Null /\ openFiles = {} /\ deferred = <<>>
    /\ created = {} /\ getCalls = 0 /\ outputStream = Null /\ filename = <<>>

\* cobra validates the flag groups before it calls Run
Execute ==
    /\ pc = "parse"
    /\ IF ValidateFlagGroups(flags)
       THEN pc' = "run" /\ err' = err
       ELSE pc' = "rejected" /\ err' = "flag groups"
    /\ UNCHANGED <<flags, store, request, out, openFiles, deferred, created,
                   getCalls, outputStream, filename>>

\* Run: persistence.GetRequest and its error handling
GetRequest ==
    /\ pc = "run"
    /\ getCalls' = getCalls + 1
    /\ request' = store.request
    /\ IF store.err # Null
       THEN logFatal(store.err)
       ELSE /\ pc' = "loaded"
            /\ UNCHANGED <<err, openFiles, deferred>>
    /\ UNCHANGED <<flags, store, out, created, outputStream, filename>>

\* Run: the curl branch, writeCurlCommand to os.Stdout
RunCurl ==
    /\ pc = "loaded" /\ flags.curl
    /\ \E order \in KeyOrders(IF request.RequestHeader.Valid
                              THEN mimeHeaderOf(request) ELSE EmptyHeader),
          fault \in 0..1 :
          LET res == writeCurlCommand(request, order, fault) IN
          /\ out' = res.writes
          /\ IF res.err # Null
             THEN logFatal(res.err)
             ELSE pc' = "returned" /\ err' = Null /\ RunDeferred
    /\ UNCHANGED <<flags, store, request, created, getCalls, outputStream,
                   filename>>

\* Run: the annotation of a chat record
Annotate ==
    /\ pc = "loaded" /\ ~flags.curl
    /\ request' = annotate(request, flags)
    /\ pc' = "annotated"
    /\ UNCHANGED <<flags, store, out, err, openFiles, deferred, created,
                   getCalls, outputStream, filename>>

\* os.Create(name) followed by defer file.Close()
CreateFile(name, ok) ==
    IF ok
    THEN /\ created' = created \cup {name}
         /\ openFiles' = openFiles \cup {name}
         /\ deferred' = Append(deferred, name)
         /\ outputStream' = name
         /\ pc' = "sink" /\ err' = err
    ELSE /\ logFatal("open " \o name \o ": permission denied")
         /\ UNCHANGED <<created, outputStream>>

\* Run: the choice of the output stream
OpenSink ==
    /\ pc = "annotated"
    /\ IF flags.directory # ""
       THEN /\ filename' = Append(filename, genFilename(request))
            /\ \E ok \in BOOLEAN :
                 CreateFile(flags.directory \o "/" \o genFilename(request), ok)
       ELSE /\ filename' = filename
            /\ IF flags.output \in {"stdout", "stderr"}
               THEN /\ outputStream' = flags.output
                    /\ pc' = "sink"
                    /\ UNCHANGED <<err, openFiles, deferred, created>>
               ELSE \E ok \in BOOLEAN : CreateFile(flags.output, ok)
    /\ UNCHANGED <<flags, store, request, out, getCalls>>

\* Run: the JSON encoder, then the return of Run
EncodeRequest ==
    /\ pc = "sink"
    /\ \E ok \in BOOLEAN :
         IF ok
         THEN /\ out' = <<Encode(request, escapeHTMLOf(flags))>>
              /\ pc' = "returned" /\ err' = Null
              /\ RunDeferred
         ELSE /\ out' = out
              /\ logFatal("write error")
    /\ UNCHANGED <<flags, store, request, created, getCalls, outputStream,
                   filename>>

Next ==
    \/ Execute
    \/ GetRequest
    \/ RunCurl
    \/ Annotate
    \/ OpenSink
    \/ EncodeRequest

Spec == Init /\ [][Next]_vars

(***************************************************************************)
(* writeCurlCommand on its own, over records with stored header blocks     *)
(***************************************************************************)
StoredKey == "sk-live-0123"

HeaderLines ==
    {"content-length: 12",
     "X-UNIX-MICRO: 1700",
     "Authorization: Bearer " \o StoredKey,
     "Accept: a",
     "accept: it's",
     "garbage",
     " folded"}

RECURSIVE JoinLines(_)
\* the lines of a header block, "\r\n" between them
JoinLines(ls) ==
    IF ls = <<>> THEN ""
    ELSE IF Len(ls) = 1 THEN ls[1]
    ELSE Head(ls) \o "\r\n" \o JoinLines(Tail(ls))

HeaderBlocks ==
    {Absent} \cup {Present(JoinLines(ls)) : ls \in SeqsUpTo(HeaderLines, MaxHeaderLines)}

CurlRecords ==
    {[BaseRequest EXCEPT !.RequestHeader = h, !.RequestBody = b] :
        h \in HeaderBlocks,
        b \in {Absent, Present("{\"a\":1}"), Present("it's")}}

InitCurl ==
    /\ pc = "writeCurlCommand"
    /\ request \in CurlRecords
    /\ flags = Null /\ store = Null
    /\ out = <<>> /\ err = Null /\ openFiles = {} /\ deferred = <<>>
    /\ created = {} /\ getCalls = 0 /\ outputStream = "w" /\ filename = <<>>

WriteCurlCommand ==
    /\ pc = "writeCurlCommand"
    /\ \E order \in KeyOrders(IF request.RequestHeader.Valid
                              THEN mimeHeaderOf(request) ELSE EmptyHeader),
          fault \in 0..MaxFault :
          LET res == writeCurlCommand(request, order, fault) IN
          /\ out' = res.writes
          /\ err' = res.err
    /\ pc' = "returned"
    /\ UNCHANGED <<flags, store, request, openFiles, deferred, created,
                   getCalls, outputStream, filename>>

NextCurl == WriteCurlCommand

SpecCurl == InitCurl /\ [][NextCurl]_vars

(***************************************************************************)
(* genFilename on its own, called up to MaxCalls times on one record       *)
(***************************************************************************)
FileRecords ==
    {[BaseRequest EXCEPT !.ChatcmplID = c, !.ExternalRequestID = x,
                         !.RequestMethod = m, !.RequestPath = p,
                         !.MoonshotUID = u, !.CreatedAt = t,
                         !.Category = cat] :
        c \in {Absent, Present("chatcmpl-abc"), Present("requestid=zz")},
        x \in {Absent, Present("req-9")},
        m \in {"POST", "Get"},
        p \in {"/v1/chat/completions", "/v1/files/f1/content", "/v2/v1/x"},
        u \in {Absent, Present(""), Present("u1")},
        t \in {Time(2024, 1, 2, 3, 4, 5), Time(2023, 12, 31, 23, 59, 0)},
        cat \in {"", "goodcase"}}

InitFilename ==
    /\ pc = "genFilename"
    /\ request \in FileRecords
    /\ flags = Null /\ store = Null
    /\ out = <<>> /\ err = Null /\ openFiles = {} /\ deferred = <<>>
    /\ created = {} /\ getCalls = 0 /\ outputStream = Null /\ filename = <<>>

GenFilename ==
    /\ pc = "genFilename"
    /\ Len(filename) < MaxCalls
    /\ filename' = Append(filename, genFilename(request))
    /\ UNCHANGED <<pc, flags, store, request, out, err, openFiles, deferred,
                   created, getCalls, outputStream>>

NextFilename == GenFilename

SpecFilename == InitFilename /\ [][NextFilename]_vars

(***************************************************************************)
(* String predicates the properties are stated with                        *)
(***************************************************************************)
Contains(s, sub) ==
    \E i \in 1..(Len(s) - Len(sub) + 1) : SubSeq(s, i, i + Len(sub) - 1) = sub

RECURSIVE Join(_)
\* concatenation of a sequence of strings
Join(ss) == IF ss = <<>> THEN "" ELSE Head(ss) \o Join(Tail(ss))

(***************************************************************************)
(* Properties of the export command (specification Spec)                   *)
(***************************************************************************)
InvalidCombination(f) ==
    \/ ~f.id /\ ~f.chatcmpl /\ ~f.requestid
    \/ f.good /\ f.bad

\* C2: an invocation with both good and bad supplied, or with none of id,
\* chatcmpl and requestid supplied, never reaches persistence.GetRequest: it
\* is rejected with no storage access and no record loaded.
C2_RejectedBeforeStorage ==
    InvalidCombination(flags) =>
        /\ getCalls = 0
        /\ request = NilRequest
        /\ pc \in {"parse", "rejected"}

C2_Witness ==
    /\ pc = "rejected"
    /\ flags.good /\ flags.bad /\ flags.id
    /\ getCalls = 0

\* C3: no invocation that created an output file ends, by returning or
\* through logFatal, with the handle of that file still open.
C3_ClosedOnEveryExit ==
    pc \in {"returned", "exited"} => openFiles = {}

\* C4: for a record that is no chat record, whatever good, bad and the tags
\* are, category and tags stay as loaded from storage up to and including
\* the rendering, the rendered category is the loaded one, and the
\* annotation step raises no error.
C4_NonChatUntouched ==
    (getCalls > 0 /\ store.err = Null /\ ~IsChat(store.request)) =>
        /\ request.Category = store.request.Category
        /\ request.Tags = store.request.Tags
        /\ pc = "annotated" => err = Null
        /\ (pc = "returned" /\ ~flags.curl) =>
              /\ out[1].Category = jsonString(store.request.Category, escapeHTMLOf(flags))
              /\ Len(out[1].Tags) = Len(store.request.Tags)

C4_Witness ==
    /\ pc = "returned" /\ ~flags.curl
    /\ ~IsChat(store.request)
    /\ flags.good /\ Len(flags.tags) > 0
    /\ store.request.Category = "badcase"
    /\ out # <<>>

HasRawHTML(s) == Contains(s, "<") \/ Contains(s, ">") \/ Contains(s, "&")

\* C10 as claimed: in JSON mode, when escape-html is not supplied, the
\* rendered string values hold no raw <, > or & (escaping is on by default).
C10_EscapesByDefault ==
    (pc = "returned" /\ ~flags.curl /\ flags.escapeHTML = "unset") =>
        ~HasRawHTML(out[1].RequestBody)

\* C10 amended: in JSON mode the rendered string values have <, > and &
\* escaped exactly when escape-html is supplied as true; when it is not
\* supplied (or supplied as false) they are written as they are.
C10_KeepsByDefault ==
    (pc = "returned" /\ ~flags.curl) =>
        IF flags.escapeHTML = "true"
        THEN /\ ~HasRawHTML(out[1].RequestBody)
             /\ Contains(out[1].RequestBody, "\\u003cb\\u003eTom \\u0026 ")
        ELSE out[1].RequestBody = "\"" \o HTMLBody \o "\""

C10_Witness ==
    /\ pc = "returned" /\ ~flags.curl
    /\ flags.escapeHTML = "unset"
    /\ Contains(out[1].RequestBody, "<b>Tom & ")

(***************************************************************************)
(* Properties of writeCurlCommand (specification SpecCurl)                 *)
(***************************************************************************)
Done == pc = "returned" /\ err = Null

\* the writes that are -H lines made from the stored header block
StoredHeaderLines == {i \in DOMAIN out : HasPrefix(out[i], "-H '")}

\* the field name of such a line
FieldName(line) == SubSeq(line, 5, IndexByte(line, ":") - 1)

\* the line the loop writes for one value of one field
HeaderLine(k, v) == "-H '" \o escape(k) \o ": " \o escape(v) \o "' " \o Continuation

parsed == ReadMIMEHeader(request.RequestHeader.String \o "\r\n\r\n")

\* C1: the output holds the fixed Authorization line and never the stored
\* key: no -H line made from the stored header block is an Authorization
\* field.
C1_NoStoredKey ==
    Done =>
        /\ \E i \in DOMAIN out : out[i] = AuthorizationLine
        /\ ~Contains(Join(out), StoredKey)
        /\ \A i \in StoredHeaderLines : ToLower(FieldName(out[i])) # "authorization"

\* the first line of the block at which header parsing fails
FirstMalformed(ls) ==
    CHOOSE i \in 1..Len(ls) :
        LET bad(j) == \/ j = 1 /\ IsSpace(At(ls[j], 1))
                      \/ ~IsSpace(At(ls[j], 1)) /\ IndexByte(ls[j], ":") = 0
        IN  bad(i) /\ \A j \in 1..(i - 1) : ~bad(j)

\* the record with its header block cut before the first malformed line
CutBeforeMalformed(r) ==
    LET ls == SplitLines(r.RequestHeader.String) IN
    [r EXCEPT !.RequestHeader =
        Present(JoinLines(SubSeq(ls, 1, FirstMalformed(ls) - 1)))]

\* the record with no header block
WithoutHeader(r) == [r EXCEPT !.RequestHeader = Absent]

ParseFails == request.RequestHeader.Valid /\ parsed.err # Null

\* C5 as claimed: when parsing the stored header block fails, the output
\* is the output for a record with no header block.
C5_MalformedAsAbsent ==
    (pc = "returned" /\ ParseFails) =>
        /\ err \in {Null, "write error"}
        /\ err = Null => out = curlWrites(WithoutHeader(request), <<>>)

\* C5 amended: when parsing the stored header block fails, writeCurlCommand
\* does not return the parse error, and the output is the output for the
\* block cut just before its first malformed line: the fields on the lines
\* before it are still written, nothing from that line on is.
C5_MalformedKeepsParsedLines ==
    (pc = "returned" /\ ParseFails) =>
        /\ err \in {Null, "write error"}
        /\ err = Null =>
              LET cut == CutBeforeMalformed(request) IN
              \E order \in KeyOrders(mimeHeaderOf(cut)) :
                  out = curlWrites(cut, order)

C5_Witness ==
    /\ Done /\ ParseFails
    /\ \E i \in DOMAIN out : out[i] = HeaderLine("Accept", "it's")

Stripped == {"content-length", "x-unix-micro"}

\* C6: no -H line names Content-Length or X-Unix-Micro in any letter case,
\* and every value of every other parsed field is written as exactly one
\* -H 'Name: value' line.
C6_StrippedAndOnePerValue ==
    (Done /\ request.RequestHeader.Valid) =>
        LET m    == parsed.header
            kept == {k \in DOMAIN m : ToLower(k) \notin Stripped}
        IN  /\ \A i \in StoredHeaderLines : ToLower(FieldName(out[i])) \notin Stripped
            /\ \A k \in kept : \A j \in DOMAIN m[k] :
                  Cardinality({i \in DOMAIN out : out[i] = HeaderLine(k, m[k][j])})
                  = Cardinality({n \in DOMAIN m[k] : m[k][n] = m[k][j]})
            /\ \A i \in StoredHeaderLines :
                  \E k \in kept : \E j \in DOMAIN m[k] : out[i] = HeaderLine(k, m[k][j])

C6_Witness ==
    /\ Done
    /\ Contains(request.RequestHeader.String, "content-length: 12")
    /\ Cardinality(StoredHeaderLines) = 1
    /\ \E i \in DOMAIN out : out[i] = HeaderLine("Accept", "a")

\* the emitted lines: every write but the closing newline
Emitted == SubSeq(out, 1, Len(out) - 1)

\* C9 as claimed: every emitted line before the last ends with the
\* continuation, and the last emitted line does not: a plain newline
\* follows it.
C9_LastLinePlain ==
    Done =>
        /\ out[Len(out)] = "\n"
        /\ \A i \in 1..(Len(Emitted) - 1) : HasSuffix(Emitted[i], Continuation)
        /\ ~HasSuffix(Emitted[Len(Emitted)], Continuation)

\* C9 amended: with a stored body, every emitted line before the -d line
\* ends with the continuation and the -d line, the last, is followed by a
\* plain newline; without a stored body every emitted line, the last
\* included, ends with the continuation and the closing newline follows
\* it.  A record with a body and no header block gives exactly three lines.
C9_ContinuedUpToBody ==
    Done =>
        /\ out[Len(out)] = "\n"
        /\ \A i \in 1..(Len(Emitted) - 1) : HasSuffix(Emitted[i], Continuation)
        /\ request.RequestBody.Valid =>
              /\ HasPrefix(Emitted[Len(Emitted)], "-d '")
              /\ ~HasSuffix(Emitted[Len(Emitted)], Continuation)
        /\ ~request.RequestBody.Valid =>
              HasSuffix(Emitted[Len(Emitted)], Continuation)
        /\ (request.RequestBody.Valid /\ ~request.RequestHeader.Valid) =>
              /\ Len(Emitted) = 3
              /\ HasPrefix(Emitted[1], "curl -X 'POST' '")
              /\ Emitted[2] = AuthorizationLine

C9_Witness ==
    /\ Done
    /\ ~request.RequestHeader.Valid
    /\ out = <<"curl -X 'POST' 'https://api.moonshot.cn/v1/chat/completions' \\\n\t",
               "-H \"Authorization: Bearer $MOONSHOT_API_KEY\"\\\n\t",
               "-d '{\"a\":1}'",
               "\n">>

(***************************************************************************)
(* Properties of genFilename (specification SpecFilename)                  *)
(***************************************************************************)
\* C7: with a completion id the name is <completion-id>.json whatever the
\* other fields are; otherwise, with an external request id, it is
\* requestid-<external-id>.json.
C7_IdentifierPrecedence ==
    \A i \in DOMAIN filename :
        /\ request.ChatcmplID.Valid =>
              filename[i] = request.ChatcmplID.String \o ".json"
        /\ (~request.ChatcmplID.Valid /\ request.ExternalRequestID.Valid) =>
              filename[i] = "requestid-" \o request.ExternalRequestID.String \o ".json"

C7_Witness ==
    /\ Len(filename) >= 1
    /\ ~request.ChatcmplID.Valid /\ request.ExternalRequestID.Valid
    /\ request.MoonshotUID.Valid
    /\ filename[1] = "requestid-req-9.json"

TwoDigits(n) == At(Digits, (n \div 10) + 1) \o At(Digits, (n % 10) + 1)

\* YYYYMMDDHHMMSS
Stamp(t) ==
    TwoDigits(t.year \div 100) \o TwoDigits(t.year % 100) \o TwoDigits(t.month)
    \o TwoDigits(t.day) \o TwoDigits(t.hour) \o TwoDigits(t.minute)
    \o TwoDigits(t.second)

FallbackName(method, path, uid, t) ==
    ToLower(method) \o "-"
    \o ReplaceAll(TrimPrefix(path, "/v1/"), "/", "-")
    \o (IF uid.Valid THEN "-" \o uid.String ELSE "")
    \o "-" \o Stamp(t) \o ".json"

NoSymbolicIdent == ~request.ChatcmplID.Valid /\ ~request.ExternalRequestID.Valid

\* C8: with neither a completion id nor an external request id, every call
\* returns lower-cased method, "-", the path without its leading "/v1/" and
\* with "-" for "/", "-" and the UID when present, "-", the creation time
\* as YYYYMMDDHHMMSS, ".json": the same on every call, from these four
\* fields alone, and the call leaves the record as it was.
C8_FallbackName ==
    /\ [](NoSymbolicIdent =>
            \A i \in DOMAIN filename :
                filename[i] = FallbackName(request.RequestMethod, request.RequestPath,
                                           request.MoonshotUID, request.CreatedAt))
    /\ [][request' = request]_vars

C8_Witness ==
    /\ NoSymbolicIdent
    /\ Len(filename) = 2
    /\ filename[1] = "get-files-f1-content-u1-20231231235900.json"
    /\ filename[2] = filename[1]
    /\ request.Category = "goodcase"

====
